---- MODULE Spec2Model ----
(***************************************************************************)
(* The cruise container manager: the in-memory container map, the on-disk  *)
(* container store, the runc adapter and the ContainerManager that         *)
(* composes them, with its request handlers run by concurrent workers.     *)
(***************************************************************************)
EXTENDS Integers, Sequences, FiniteSets, TLC

\* ------------------------------------------------------------------ bounds
\* container directories an earlier run of the daemon may have left on disk
NumPre == 1
\* ids rand_id can still hand out
NumFresh == 1
\* worker threads of the RPC server that call into the manager
NumWorkers == 2
\* manager calls issued in one behaviour
MaxOps == 2
\* calls made on a ContainerMap taken alone
MaxMapCalls == 3

PreIds == 1..NumPre
Ids == 1..(NumPre + NumFresh)
Workers == 1..NumWorkers
\* SystemTime values: 0 stands for None, the clock starts at 1
Times == 0..(MaxOps + 1)

VARIABLES
    phase,          \* "new", "reload", "serving", "failed": ContainerManager::new
    reload_ids,     \* container ids reload still has to visit
    container_map,  \* ContainerMap.map: id -> Container
    disk,           \* <root_dir>/containers: id -> files of that directory
    runc,           \* what the runtime knows of each id
    clock,          \* SystemTime::now
    used,           \* ids rand_id has produced, or on disk or in the runtime at startup
    ops,            \* manager calls issued so far
    pc, op, cid,    \* per worker: position, handler, container id
    buf,            \* per worker: the clone atomic_persist serializes
    todo,           \* per worker: list_containers' snapshot still to sync
    err,            \* per worker: the error a failing create carries to rollback
    fd,             \* per worker: where the file it is writing now lives
    st,             \* per worker: the status its sync got from the runtime
    res,            \* per worker: what its last call returned
    \* history
    reload_log,     \* id -> what reload's iteration for that id went through
    create_failed,  \* ids whose create_container returned Err
    spec_exit,      \* id -> exit status of `runc spec` for that id
    runc_calls,     \* id -> method -> times the manager ran that runc command
    prev,           \* per worker: container.state when its store persist began
    overlap,        \* per worker: another persist of the same id, or a removal
                    \* of its directory, ran during its store persist
    shared,         \* per worker: another call on the same container ran meanwhile
    seq             \* the client is the one that runs Script, call after call

vars == <<phase, reload_ids, container_map, disk, runc, clock, used, ops,
          pc, op, cid, buf, todo, err, fd, st, res,
          reload_log, create_failed, spec_exit, runc_calls, prev, overlap, shared, seq>>

\* ------------------------------------------------------------- container
Statuses == {"Initialized", "Created", "Running", "Paused", "Stopped", "Unknown"}

\* new_container(&container_id, &opts.name, &opts.command, &opts.args)
new(id, name, command, args) ==
    [id |-> id, name |-> name, status |-> "Initialized", exit_code |-> -1,
     created_at |-> 0, started_at |-> 0, command |-> command, args |-> args]

NoContainer == new(0, "", "", <<>>)

\* Status::from_runc_status that takes pausing for Paused
from_runc_status_pausing_paused(s) ==
    CASE s = "created" -> "Created"
      [] s = "running" -> "Running"
      [] s = "pausing" -> "Paused"
      [] s = "paused"  -> "Paused"
      [] s = "stopped" -> "Stopped"
      [] OTHER         -> "Unknown"

\* Status::from_runc_status
from_runc_status(s) ==
    CASE s = "created" -> "Created"
      [] s = "running" -> "Running"
      [] s = "pausing" -> "Running"
      [] s = "paused"  -> "Paused"
      [] s = "stopped" -> "Stopped"
      [] OTHER         -> "Unknown"

\* ----------------------------------------------------------------- errors
NoErr == [kind |-> "none", container_id |-> 0, method |-> ""]
Err(kind, id) == [kind |-> kind, container_id |-> id, method |-> ""]
RuncError(method, id) == [kind |-> "RuncError", container_id |-> id, method |-> method]

\* ------------------------------------------------------------ ContainerMap
MapHas(m, id) == id \in DOMAIN m

\* ContainerMap::add that replaces the record of an id that is present
MapAddOverwrites(m, c) == [j \in DOMAIN m \cup {c.id} |-> IF j = c.id THEN c ELSE m[j]]

\* ContainerMap::add: the map afterwards (unchanged when the id is present)
MapAdd(m, c) == IF MapHas(m, c.id) THEN m ELSE m @@ (c.id :> c)

\* ContainerMap::remove that drops every entry when the id is present
MapRemoveClears(m, id) == IF id \in DOMAIN m THEN [j \in {} |-> m[j]] ELSE m

\* ContainerMap::remove
MapRemove(m, id) == [j \in DOMAIN m \ {id} |-> m[j]]

\* ContainerMap::update_status that also sets the exit code
MapUpdateStatusAndExitCode(m, id, status) == [m EXCEPT ![id].status = status, ![id].exit_code = 0]

\* ContainerMap::update_status (the caller has checked presence)
MapUpdateStatus(m, id, status) == [m EXCEPT ![id].status = status]

\* ContainerMap::update_creation_time
MapUpdateCreationTime(m, id, t) == [m EXCEPT ![id].created_at = t]

\* ContainerMap::update_start_time that writes the creation time
MapUpdateStartTimeSetsCreation(m, id, t) == [m EXCEPT ![id].created_at = t]

\* ContainerMap::update_start_time
MapUpdateStartTime(m, id, t) == [m EXCEPT ![id].started_at = t]

\* ContainerMap::list
MapList(m) == {m[j] : j \in DOMAIN m}

\* ---------------------------------------------------------- ContainerStore
\* a file is the sequence of its tokens; <<>> is a file that does not exist
NoFile == <<>>
Garbage == <<"garbage">>

TimeStr(t) == IF t = 0 THEN "null" ELSE ToString(t)

\* serde_json::to_string(&container)
Serialize(c) ==
    <<ToString(c.id), c.name, c.status, ToString(c.exit_code),
      TimeStr(c.created_at), TimeStr(c.started_at), c.command>> \o c.args

IsInt(s, S) == \E n \in S : ToString(n) = s
ParseInt(s, S) == CHOOSE n \in S : ToString(n) = s
IsTime(s) == s = "null" \/ IsInt(s, Times \ {0})
ParseTime(s) == IF s = "null" THEN 0 ELSE ParseInt(s, Times \ {0})

\* serde_json::from_str succeeds
Parses(b) ==
    /\ Len(b) >= 7
    /\ IsInt(b[1], Ids)
    /\ b[3] \in Statuses
    /\ IsInt(b[4], {-1})
    /\ IsTime(b[5])
    /\ IsTime(b[6])

\* serde_json::from_str
Deserialize(b) ==
    [id |-> ParseInt(b[1], Ids), name |-> b[2], status |-> b[3],
     exit_code |-> ParseInt(b[4], {-1}),
     created_at |-> ParseTime(b[5]), started_at |-> ParseTime(b[6]),
     command |-> b[7], args |-> SubSeq(b, 8, Len(b))]

\* what a reader finds in a file that fs::write has opened but not finished
Partial(b) == SubSeq(b, 1, Len(b) \div 2)

\* a freshly created container directory
EmptyDir == [state |-> NoFile, temp |-> NoFile, bundle |-> "none"]

DirExists(d, id) == id \in DOMAIN d

\* ContainerStore::create_container: create_dir_all(container_dir)
StoreCreateDir(d, id) == d @@ (id :> EmptyDir)

\* ContainerStore::remove_container: remove_dir_all, its result dropped
StoreRemove(d, id) == [j \in DOMAIN d \ {id} |-> d[j]]

\* remove_dir_all, first part: the entries it finds in the directory are removed
StoreRemoveEntries(d, id) == IF DirExists(d, id) THEN [d EXCEPT ![id] = EmptyDir] ELSE d

\* remove_dir_all, last part: rmdir, which fails on a directory that is not
\* empty; ContainerStore::remove_container drops the error
StoreRmdir(d, id) ==
    IF DirExists(d, id) /\ d[id] = EmptyDir THEN StoreRemove(d, id) ELSE d

\* ContainerStore::read_container_state succeeds
StoreReadable(d, id) == DirExists(d, id) /\ Parses(d[id].state)

\* ContainerStore::atomic_persist_container_state: rename(temp, state)
StoreRename(d, id) == [d EXCEPT ![id].state = d[id].temp, ![id].temp = NoFile]

\* persisting a container in one piece: fs::write to container.state.temp, rename
StorePersist(d, c) ==
    StoreRename([d EXCEPT ![c.id].temp = Serialize(c)], c.id)

\* --------------------------------------------------------- ContainerRuntime
\* RuncMethod
RuncMethod == {"Spec", "Create", "Start", "Kill", "Delete", "State"}

RuncStates == {"none", "spawned", "created", "starting", "running", "paused", "stopped"}

\* stdout of `runc state <id>`: "" when runc does not know the id, else the
\* status field of the JSON it prints
RuncStateStdout(r) ==
    CASE r = "none"     -> {""}
      [] r = "spawned"  -> {"", "creating"}
      [] r = "created"  -> {"created"}
      [] r = "starting" -> {"created"}
      [] r = "running"  -> {"running"}
      [] r = "paused"   -> {"paused"}
      [] r = "stopped"  -> {"stopped"}

\* how one `runc state` invocation can end: the process cannot be run, or its
\* stdout, which may fail to parse as JSON
GetStatusOutcomes(r) == {"spawn_err", "not json"} \cup RuncStateStdout(r)

\* ContainerRuntime::get_container_status
get_container_status(out, id) ==
    IF out = "spawn_err"
    THEN [ok |-> FALSE, status |-> "Unknown", err |-> RuncError("State", id)]
    ELSE IF out = ""
    THEN [ok |-> FALSE, status |-> "Unknown", err |-> Err("ContainerNotFoundError", id)]
    ELSE IF out = "not json"
    THEN [ok |-> FALSE, status |-> "Unknown", err |-> Err("ParseContainerStatusError", 0)]
    ELSE [ok |-> TRUE, status |-> from_runc_status(out), err |-> NoErr]

\* how fs::write followed by rename can end inside one reload iteration
PersistOutcomes == {"ok", "PersistContainerStateError", "RenameContainerStateFileError"}

\* ------------------------------------------------------------------- Init
\* records an earlier run can have persisted for container id
InitRecords(id) ==
    {[new(id, "c1", "sh", <<"-c">>) EXCEPT !.status = s, !.created_at = 1,
                           !.started_at = IF s = "Created" THEN 0 ELSE 1]
        : s \in {"Created", "Running", "Stopped"}}

\* container directories an earlier run, a crash or an outside writer can
\* have left: no state file yet, an unparseable one, or a persisted record
InitDirs(id) ==
    {[EmptyDir EXCEPT !.bundle = "config", !.state = s]
        : s \in {NoFile, Garbage} \cup {Serialize(c) : c \in InitRecords(id)}}

InitDisks ==
    UNION {{d \in [S -> UNION {InitDirs(i) : i \in S}] : \A i \in S : d[i] \in InitDirs(i)}
              : S \in SUBSET PreIds}

InitRunc ==
    {r \in [Ids -> {"none", "created", "running", "paused", "stopped"}]
        : \A i \in Ids \ PreIds : r[i] = "none"}

NoRes == [op |-> "", id |-> 0, ok |-> FALSE, err |-> NoErr, val |-> {}]
NoLog == [visited |-> FALSE, parsed |-> FALSE, stdout |-> "-", persisted |-> FALSE]

Init ==
    /\ phase = "new"
    /\ reload_ids = {}
    /\ container_map = [j \in {} |-> NoContainer]
    /\ disk \in InitDisks
    /\ runc \in InitRunc
    /\ clock = 1
    /\ used = DOMAIN disk \cup {i \in Ids : runc[i] # "none"}
    /\ ops = 0
    /\ pc = [w \in Workers |-> "idle"]
    /\ op = [w \in Workers |-> ""]
    /\ cid = [w \in Workers |-> 0]
    /\ buf = [w \in Workers |-> NoContainer]
    /\ todo = [w \in Workers |-> {}]
    /\ err = [w \in Workers |-> NoErr]
    /\ fd = [w \in Workers |-> "none"]
    /\ st = [w \in Workers |-> ""]
    /\ res = [w \in Workers |-> NoRes]
    /\ reload_log = [i \in Ids |-> NoLog]
    /\ create_failed = {}
    /\ spec_exit = [i \in Ids |-> "-"]
    /\ runc_calls = [i \in Ids |-> [m \in RuncMethod |-> 0]]
    /\ prev = [w \in Workers |-> NoFile]
    /\ overlap = [w \in Workers |-> FALSE]
    /\ shared = [w \in Workers |-> FALSE]
    /\ seq \in BOOLEAN

workerVars == <<pc, op, cid, buf, todo, err, fd, st, res, prev, overlap, shared>>
mgrVars == <<phase, reload_ids, reload_log>>
createHist == <<create_failed, spec_exit>>

\* the manager runs `runc <m>` for container i
Invoke(m, i) == runc_calls' = [runc_calls EXCEPT ![i][m] = @ + 1]

\* ------------------------------------------------- ContainerManager::new
\* ContainerStore::new and the listing of the containers directory; either
\* can fail, and then new returns Err
New ==
    /\ phase = "new"
    /\ \E out \in {"ok", "CreateContainerStoreError", "ReloadError"} :
         /\ phase' = IF out = "ok" THEN "reload" ELSE "failed"
         /\ reload_ids' = IF out = "ok" THEN DOMAIN disk ELSE {}
    /\ UNCHANGED <<container_map, disk, runc, clock, used, ops, workerVars,
                   reload_log, createHist, seq>>
    /\ UNCHANGED runc_calls

\* reload that leaves the directory of an unreadable container in place
ReloadUnreadableKept(d, i) == d

\* reload, the state file of container i cannot be read or parsed:
\* remove_container_directory, continue
ReloadUnreadable(d, i) == StoreRemove(d, i)

\* reload that, on a failed sync, removes the directory but not the map entry
ReloadSyncFailedKeepsEntry(m, d, i) == [map |-> m, disk |-> StoreRemove(d, i)]

\* reload, sync_container_status_with_runtime of container i failed:
\* remove_container_directory and container_map.remove, continue
ReloadSyncFailed(m, d, i) == [map |-> MapRemove(m, i), disk |-> StoreRemove(d, i)]

\* sync_container_status_with_runtime that persists the record as it was read
\* from disk rather than the one the map holds after update_container_status
ReloadSyncedStale(m, d, i, status) ==
    LET m2 == MapUpdateStatus(m, i, status)
    IN  [map |-> m2, disk |-> StorePersist(d, m[i])]

\* sync_container_status_with_runtime when each of its steps succeeds:
\* update_container_status, then atomic_persist_container_state of the
\* container the map now holds
ReloadSynced(m, d, i, status) ==
    LET m2 == MapUpdateStatus(m, i, status)
    IN  [map |-> m2, disk |-> StorePersist(d, m2[i])]

\* one iteration of reload's loop: read_container_state, ContainerMap::add,
\* sync_container_status_with_runtime, and the removal when one of them fails
ReloadContainer(i) ==
    /\ phase = "reload"
    /\ i \in reload_ids
    /\ reload_ids' = reload_ids \ {i}
    /\ \E out \in GetStatusOutcomes(runc[i]), io \in PersistOutcomes :
         LET readable == StoreReadable(disk, i)
             c == Deserialize(disk[i].state)
             added == readable /\ ~MapHas(container_map, c.id)
             m1 == IF added THEN MapAdd(container_map, c) ELSE container_map
             got == get_container_status(out, i)
             synced == added /\ got.ok /\ MapHas(m1, i) /\ io = "ok"
             after == IF ~readable
                      THEN [map |-> container_map, disk |-> ReloadUnreadable(disk, i)]
                      ELSE IF ~added THEN [map |-> container_map, disk |-> disk]
                      ELSE IF synced THEN ReloadSynced(m1, disk, i, got.status)
                      ELSE ReloadSyncFailed(m1, disk, i)
         IN  /\ container_map' = after.map
             /\ disk' = after.disk
             /\ reload_log' = [reload_log EXCEPT ![i] =
                   [visited |-> TRUE, parsed |-> readable,
                    stdout |-> IF added /\ got.ok THEN out ELSE "-",
                    persisted |-> synced]]
             /\ runc_calls' = IF added THEN [runc_calls EXCEPT ![i]["State"] = @ + 1]
                              ELSE runc_calls
    /\ UNCHANGED <<phase, runc, clock, used, ops, workerVars, createHist, seq>>

\* reload's loop is over: new returns Ok(container_manager)
ReloadReturn ==
    /\ phase = "reload"
    /\ reload_ids = {}
    /\ phase' = "serving"
    /\ reload_log' = [i \in Ids |-> NoLog]
    /\ UNCHANGED <<reload_ids, container_map, disk, runc, clock, used, ops,
                   workerVars, createHist, seq>>
    /\ UNCHANGED runc_calls

\* ------------------------------------------------------- worker plumbing
\* a worker's locals once its call is over
Reset(f, w, v) == [f EXCEPT ![w] = v]

\* the call of worker w returns; fd and overlap are left to the action, which
\* may have to update them for other workers too
ReturnBut(w, ok, e, val) ==
    /\ pc' = Reset(pc, w, "idle")
    /\ res' = Reset(res, w, [op |-> op[w], id |-> cid[w], ok |-> ok, err |-> e, val |-> val])
    /\ op' = Reset(op, w, "")
    /\ cid' = Reset(cid, w, 0)
    /\ buf' = Reset(buf, w, NoContainer)
    /\ todo' = Reset(todo, w, {})
    /\ err' = Reset(err, w, NoErr)
    /\ st' = Reset(st, w, "")
    /\ prev' = Reset(prev, w, NoFile)
    /\ shared' = Reset(shared, w, FALSE)

Return(w, ok, e, val) ==
    /\ ReturnBut(w, ok, e, val)
    /\ fd' = Reset(fd, w, "none")
    /\ overlap' = Reset(overlap, w, FALSE)

\* a step of worker w failed with e: create_container_helper hands the error
\* to rollback_container_create, every other handler returns it
FailBut(w, e) ==
    IF op[w] = "create"
    THEN /\ pc' = Reset(pc, w, "c_rb_map")
         /\ err' = Reset(err, w, e)
         /\ buf' = Reset(buf, w, NoContainer)
         /\ prev' = Reset(prev, w, NoFile)
         /\ UNCHANGED <<res, op, cid, todo, st, shared>>
    ELSE ReturnBut(w, FALSE, e, {})

Fail(w, e) ==
    /\ FailBut(w, e)
    /\ fd' = Reset(fd, w, "none")
    /\ overlap' = Reset(overlap, w, FALSE)

\* worker w moves on to position p
Goto(w, p) ==
    /\ pc' = Reset(pc, w, p)
    /\ UNCHANGED <<op, cid, buf, todo, err, fd, st, res, prev, overlap, shared>>

\* the calls of a client that takes one container through its lifecycle,
\* each on the id the first returned, each made when the one before returned Ok
Script == <<"create", "get", "start", "get", "stop", "get", "delete", "get">>

\* handler o on container i is what that client calls next
Scripted(w, o, i) ==
    seq => /\ o = Script[ops + 1]
           /\ ops > 0 => i = res[w].id

\* the RPC server hands a request to a free worker (the free worker of lowest
\* index: workers are interchangeable)
Accept(w) ==
    /\ phase = "serving"
    /\ pc[w] = "idle"
    /\ \A v \in Workers : v < w => pc[v] # "idle"
    /\ IF seq THEN ops < Len(Script) /\ (ops > 0 => res[w].ok) ELSE ops < MaxOps
    /\ ops' = ops + 1

\* the other workers whose call is in progress on the container that handler
\* o of worker w is called for; list_containers works on every container
Touching(w, o, i) ==
    {v \in Workers \ {w} :
        pc[v] # "idle" /\ (o = "list" \/ op[v] = "list" \/ cid[v] = i)}

\* worker w enters handler o for container i at position p
Begin(w, o, i, p) ==
    /\ Scripted(w, o, i)
    /\ pc' = Reset(pc, w, p)
    /\ op' = Reset(op, w, o)
    /\ cid' = Reset(cid, w, i)
    /\ res' = Reset(res, w, NoRes)
    /\ shared' = [v \in Workers |->
                    IF v = w THEN Touching(w, o, i) # {}
                    ELSE shared[v] \/ v \in Touching(w, o, i)]

\* handler o of worker w returns e from its first step
Reject(w, o, i, e) ==
    /\ Scripted(w, o, i)
    /\ res' = Reset(res, w, [op |-> o, id |-> i, ok |-> FALSE, err |-> e, val |-> {}])
    /\ UNCHANGED <<pc, op, cid, shared>>

\* ----------------------------------------- ContainerManager::create_container
\* rand_id, container::new and ContainerMap::add
CreateContainer(w) ==
    /\ Accept(w)
    /\ \E i \in Ids \ used :
        /\ used' = used \cup {i}
        /\ IF MapHas(container_map, i)
           THEN /\ Begin(w, "create", i, "c_rb_map")
                /\ err' = Reset(err, w, Err("ContainerAlreadyExistsError", i))
                /\ UNCHANGED container_map
           ELSE /\ Begin(w, "create", i, "c_dir")
                /\ container_map' = MapAdd(container_map, new(i, "c1", "sh", <<"-c">>))
                /\ UNCHANGED err
    /\ UNCHANGED <<mgrVars, disk, runc, clock, buf, todo, fd, st, prev, overlap,
                   createHist, seq>>
    /\ UNCHANGED runc_calls

\* ContainerStore::create_container
CreateDir(w) ==
    /\ pc[w] = "c_dir"
    /\ \E out \in {"ok", "CreateSpecificContainerDirError"} :
         IF DirExists(disk, cid[w])
         THEN /\ Fail(w, Err("ContainerDirAlreadyExistsError", cid[w]))
              /\ UNCHANGED disk
         ELSE IF out = "ok"
         THEN /\ disk' = StoreCreateDir(disk, cid[w])
              /\ Goto(w, "c_bundle")
         ELSE /\ Fail(w, Err(out, cid[w]))
              /\ UNCHANGED disk
    /\ UNCHANGED <<mgrVars, container_map, runc, clock, used, ops, createHist, seq>>
    /\ UNCHANGED runc_calls

\* ContainerStore::create_container_bundle: create_dir_all(rootfs_dir), copy_dir
CreateBundle(w) ==
    /\ pc[w] = "c_bundle"
    /\ \E out \in {"ok", "CreateRootfsDirError", "CopyRootfsDirError"} :
         LET d1 == IF DirExists(disk, cid[w]) THEN disk ELSE StoreCreateDir(disk, cid[w])
         IN  /\ disk' = IF out = "CreateRootfsDirError" THEN disk
                        ELSE [d1 EXCEPT ![cid[w]].bundle = "rootfs"]
             /\ IF out = "ok" THEN Goto(w, "c_spec") ELSE Fail(w, Err(out, cid[w]))
    /\ UNCHANGED <<mgrVars, container_map, runc, clock, used, ops, createHist, seq>>
    /\ UNCHANGED runc_calls

\* ContainerRuntime::new_runtime_spec: `runc spec` and the two sed rewrites, each
\* run with Command::output, which is Ok whatever the exit status
CreateSpec(w) ==
    /\ pc[w] = "c_spec"
    /\ \E out \in {"zero", "nonzero", "RuncError", "SedError"} :
         /\ IF out = "RuncError" THEN Fail(w, RuncError("Spec", 0))
            ELSE IF out = "SedError" THEN Fail(w, Err("SedError", 0))
            ELSE Goto(w, "c_runc")
         /\ spec_exit' = IF out = "RuncError" THEN spec_exit
                         ELSE [spec_exit EXCEPT ![cid[w]] =
                                  IF out = "nonzero" THEN "nonzero" ELSE "zero"]
         /\ disk' = IF out \in {"zero", "SedError"} /\ DirExists(disk, cid[w])
                    THEN [disk EXCEPT ![cid[w]].bundle = "config"]
                    ELSE disk
    /\ UNCHANGED <<mgrVars, container_map, runc, clock, used, ops, create_failed, seq>>
    /\ Invoke("Spec", cid[w])

\* ContainerRuntime::create_container: `runc create` is spawned, not waited for
CreateRunc(w) ==
    /\ pc[w] = "c_runc"
    /\ \E out \in {"ok", "RuncError"} :
         IF out = "ok"
         THEN /\ runc' = IF runc[cid[w]] = "none"
                         THEN [runc EXCEPT ![cid[w]] = "spawned"] ELSE runc
              /\ Goto(w, "c_created_at")
         ELSE /\ Fail(w, RuncError("Create", 0))
              /\ UNCHANGED runc
    /\ UNCHANGED <<mgrVars, container_map, disk, clock, used, ops, createHist, seq>>
    /\ Invoke("Create", cid[w])

\* update_container_created_at(&container_id, SystemTime::now())
CreateCreatedAt(w) ==
    /\ pc[w] = "c_created_at"
    /\ clock' = clock + 1
    /\ IF MapHas(container_map, cid[w])
       THEN /\ container_map' = MapUpdateCreationTime(container_map, cid[w], clock')
            /\ Goto(w, "c_status")
       ELSE /\ Fail(w, Err("ContainerNotFoundError", cid[w]))
            /\ UNCHANGED container_map
    /\ UNCHANGED <<mgrVars, disk, runc, used, ops, createHist, seq>>
    /\ UNCHANGED runc_calls

\* create_container_helper without update_container_status(Created)
CreateStatusSkipped(w) ==
    /\ pc[w] = "c_status"
    /\ IF MapHas(container_map, cid[w])
       THEN /\ container_map' = container_map
            /\ Goto(w, "p_get")
       ELSE /\ Fail(w, Err("ContainerNotFoundError", cid[w]))
            /\ UNCHANGED container_map
    /\ UNCHANGED <<mgrVars, disk, runc, clock, used, ops, createHist, seq>>
    /\ UNCHANGED runc_calls

\* update_container_status(&container_id, Status::Created)
CreateStatus(w) ==
    /\ pc[w] = "c_status"
    /\ IF MapHas(container_map, cid[w])
       THEN /\ container_map' = MapUpdateStatus(container_map, cid[w], "Created")
            /\ Goto(w, "p_get")
       ELSE /\ Fail(w, Err("ContainerNotFoundError", cid[w]))
            /\ UNCHANGED container_map
    /\ UNCHANGED <<mgrVars, disk, runc, clock, used, ops, createHist, seq>>
    /\ UNCHANGED runc_calls

\* rollback_container_create that loses the error it was called for
RollbackMapDropsError(w) ==
    /\ pc[w] = "c_rb_map"
    /\ container_map' = MapRemove(container_map, cid[w])
    /\ pc' = Reset(pc, w, "c_rb_dir")
    /\ err' = Reset(err, w, Err("RollbackError", cid[w]))
    /\ UNCHANGED <<op, cid, buf, todo, fd, st, res, prev, overlap, shared>>
    /\ UNCHANGED <<mgrVars, disk, runc, clock, used, ops, createHist, seq>>
    /\ UNCHANGED runc_calls

\* rollback_container_create: ContainerMap::remove
RollbackMap(w) ==
    /\ pc[w] = "c_rb_map"
    /\ container_map' = MapRemove(container_map, cid[w])
    /\ Goto(w, "c_rb_dir")
    /\ UNCHANGED <<mgrVars, disk, runc, clock, used, ops, createHist, seq>>
    /\ UNCHANGED runc_calls

\* files of directory i that workers hold open are unlinked with it
Unlinked(i) ==
    [v \in Workers |-> IF cid[v] = i /\ fd[v] # "none" THEN "unlinked" ELSE fd[v]]

\* the store persists of container i that the removal of its directory cuts across
Cut(i) ==
    [v \in Workers |->
        overlap[v] \/ (cid[v] = i /\ pc[v] \in {"p_write_end", "p_rename"})]

\* rollback_container_create: ContainerStore::remove_container, where
\* remove_dir_all removes the entries of the directory
RollbackDir(w) ==
    /\ pc[w] = "c_rb_dir"
    /\ disk' = StoreRemoveEntries(disk, cid[w])
    /\ pc' = Reset(pc, w, "c_rb_rmdir")
    /\ fd' = Unlinked(cid[w])
    /\ overlap' = Cut(cid[w])
    /\ UNCHANGED <<op, cid, buf, todo, err, st, res, prev, shared>>
    /\ UNCHANGED <<mgrVars, container_map, runc, clock, used, ops, createHist, seq>>
    /\ UNCHANGED runc_calls

\* remove_dir_all ends with the rmdir of the directory, then create_container
\* returns Err(err.source)
RollbackRmdir(w) ==
    /\ pc[w] = "c_rb_rmdir"
    /\ disk' = StoreRmdir(disk, cid[w])
    /\ Return(w, FALSE, err[w], {})
    /\ create_failed' = create_failed \cup {cid[w]}
    /\ UNCHANGED <<mgrVars, container_map, runc, clock, used, ops, spec_exit, seq>>
    /\ UNCHANGED runc_calls

\* --------------------------- ContainerManager::atomic_persist_container_state
\* after a persist that succeeded: create, start and stop return Ok, get goes
\* on to its final ContainerMap::get, list to the next container of its snapshot
Persisted(w) ==
    IF op[w] \in {"create", "start", "stop"}
    THEN ReturnBut(w, TRUE, NoErr, {})
    ELSE /\ pc' = Reset(pc, w, IF op[w] = "get" THEN "g_get" ELSE "l_loop")
         /\ buf' = Reset(buf, w, NoContainer)
         /\ prev' = Reset(prev, w, NoFile)
         /\ UNCHANGED <<op, cid, todo, err, st, res, shared>>

\* self.container_map.get(&container_id), its error wrapped as ContainerMapError
PersistGet(w) ==
    /\ pc[w] = "p_get"
    /\ IF MapHas(container_map, cid[w])
       THEN /\ pc' = Reset(pc, w, "p_write")
            /\ buf' = Reset(buf, w, container_map[cid[w]])
            /\ UNCHANGED <<op, cid, todo, err, fd, st, res, prev, overlap, shared>>
       ELSE Fail(w, Err("ContainerMapError", cid[w]))
    /\ UNCHANGED <<mgrVars, container_map, disk, runc, clock, used, ops, createHist, seq>>
    /\ UNCHANGED runc_calls

\* the workers inside the store's persist of container i, other than w
Persisting(w, i) ==
    {v \in Workers \ {w} : cid[v] = i /\ pc[v] \in {"p_write_end", "p_rename"}}

\* a persist that writes container.state in place, with no temporary file
PersistWriteInPlace(w) ==
    /\ pc[w] = "p_write"
    /\ \E out \in {"ok", "PersistContainerStateError"} :
         IF DirExists(disk, buf[w].id) /\ out = "ok"
         THEN /\ disk' = [disk EXCEPT ![buf[w].id].state = Partial(Serialize(buf[w]))]
              /\ pc' = Reset(pc, w, "p_write_end")
              /\ fd' = Reset(fd, w, "state")
              /\ prev' = Reset(prev, w, disk[buf[w].id].state)
              /\ overlap' = [v \in Workers |->
                               IF v = w THEN Persisting(w, buf[w].id) # {}
                               ELSE overlap[v] \/ v \in Persisting(w, buf[w].id)]
              /\ UNCHANGED <<op, cid, buf, todo, err, st, res, shared>>
         ELSE /\ Fail(w, Err("PersistContainerStateError", buf[w].id))
              /\ UNCHANGED disk
    /\ UNCHANGED <<mgrVars, container_map, runc, clock, used, ops, createHist, seq>>
    /\ UNCHANGED runc_calls

\* ContainerStore::atomic_persist_container_state: fs::write opens
\* container.state.temp, creating or truncating it
PersistWrite(w) ==
    /\ pc[w] = "p_write"
    /\ \E out \in {"ok", "PersistContainerStateError"} :
         IF DirExists(disk, buf[w].id) /\ out = "ok"
         THEN /\ disk' = [disk EXCEPT ![buf[w].id].temp = Partial(Serialize(buf[w]))]
              /\ pc' = Reset(pc, w, "p_write_end")
              /\ fd' = Reset(fd, w, "temp")
              /\ prev' = Reset(prev, w, disk[buf[w].id].state)
              /\ overlap' = [v \in Workers |->
                               IF v = w THEN Persisting(w, buf[w].id) # {}
                               ELSE overlap[v] \/ v \in Persisting(w, buf[w].id)]
              /\ UNCHANGED <<op, cid, buf, todo, err, st, res, shared>>
         ELSE /\ Fail(w, Err("PersistContainerStateError", buf[w].id))
              /\ UNCHANGED disk
    /\ UNCHANGED <<mgrVars, container_map, runc, clock, used, ops, createHist, seq>>
    /\ UNCHANGED runc_calls

\* fs::write writes the serialized container into the file it opened, which is
\* container.state.temp unless a rename or a removal moved it meanwhile
PersistWriteEnd(w) ==
    /\ pc[w] = "p_write_end"
    /\ \E out \in {"ok", "PersistContainerStateError"} :
         IF out = "ok"
         THEN /\ disk' = IF fd[w] = "temp"
                         THEN [disk EXCEPT ![buf[w].id].temp = Serialize(buf[w])]
                         ELSE IF fd[w] = "state"
                         THEN [disk EXCEPT ![buf[w].id].state = Serialize(buf[w])]
                         ELSE disk
              /\ pc' = Reset(pc, w, "p_rename")
              /\ fd' = Reset(fd, w, "none")
              /\ UNCHANGED <<op, cid, buf, todo, err, st, res, prev, overlap, shared>>
         ELSE /\ Fail(w, Err("PersistContainerStateError", buf[w].id))
              /\ UNCHANGED disk
    /\ UNCHANGED <<mgrVars, container_map, runc, clock, used, ops, createHist, seq>>
    /\ UNCHANGED runc_calls

\* where the files other workers hold open live after container.state.temp of
\* container i was renamed onto container.state
Renamed(i) ==
    [v \in Workers |->
        IF cid[v] = i /\ fd[v] = "temp" THEN "state"
        ELSE IF cid[v] = i /\ fd[v] = "state" THEN "unlinked"
        ELSE fd[v]]

\* rename(container.state.temp, container.state)
PersistRename(w) ==
    /\ pc[w] = "p_rename"
    /\ \E out \in {"ok", "RenameContainerStateFileError"} :
         IF DirExists(disk, buf[w].id) /\ disk[buf[w].id].temp # NoFile /\ out = "ok"
         THEN /\ disk' = StoreRename(disk, buf[w].id)
              /\ Persisted(w)
              /\ fd' = Reset(Renamed(buf[w].id), w, "none")
              /\ overlap' = Reset(overlap, w, FALSE)
         ELSE /\ Fail(w, Err("RenameContainerStateFileError", buf[w].id))
              /\ UNCHANGED disk
    /\ UNCHANGED <<mgrVars, container_map, runc, clock, used, ops, createHist, seq>>
    /\ UNCHANGED runc_calls

\* sync_container_status_with_runtime that persists without updating the map
SyncUpdateSkipped(w) ==
    /\ pc[w] = "y_update"
    /\ IF MapHas(container_map, cid[w])
       THEN /\ container_map' = container_map
            /\ Goto(w, "p_get")
       ELSE /\ Fail(w, Err("ContainerNotFoundError", cid[w]))
            /\ UNCHANGED container_map
    /\ UNCHANGED <<mgrVars, disk, runc, clock, used, ops, createHist, seq>>
    /\ UNCHANGED runc_calls

\* ------------------------------ ContainerManager::sync_container_status_with_runtime
\* update_container_status(&container_id, status) with the status the runtime gave
SyncUpdate(w) ==
    /\ pc[w] = "y_update"
    /\ IF MapHas(container_map, cid[w])
       THEN /\ container_map' = MapUpdateStatus(container_map, cid[w], st[w])
            /\ Goto(w, "p_get")
       ELSE /\ Fail(w, Err("ContainerNotFoundError", cid[w]))
            /\ UNCHANGED container_map
    /\ UNCHANGED <<mgrVars, disk, runc, clock, used, ops, createHist, seq>>
    /\ UNCHANGED runc_calls

\* ------------------------------------------ ContainerManager::start_container
\* the lookup and the check that the container is Created
StartContainer(w, i) ==
    /\ Accept(w)
    /\ IF ~MapHas(container_map, i)
       THEN Reject(w, "start", i, Err("ContainerNotFoundError", i))
       ELSE IF container_map[i].status # "Created"
       THEN Reject(w, "start", i, Err("StartContainerNotInCreatedStateError", i))
       ELSE Begin(w, "start", i, "s_runc")
    /\ UNCHANGED <<mgrVars, container_map, disk, runc, clock, used, buf, todo, err,
                   fd, st, prev, overlap, createHist, seq>>
    /\ UNCHANGED runc_calls

\* ContainerRuntime::start_container: `runc start` is spawned, not waited for
StartRunc(w) ==
    /\ pc[w] = "s_runc"
    /\ \E out \in {"ok", "RuncError"} :
         IF out = "ok"
         THEN /\ runc' = IF runc[cid[w]] = "created"
                         THEN [runc EXCEPT ![cid[w]] = "starting"] ELSE runc
              /\ Goto(w, "s_started_at")
         ELSE /\ Fail(w, RuncError("Start", cid[w]))
              /\ UNCHANGED runc
    /\ UNCHANGED <<mgrVars, container_map, disk, clock, used, ops, createHist, seq>>
    /\ Invoke("Start", cid[w])

\* start_container without update_container_started_at
StartStartedAtSkipped(w) ==
    /\ pc[w] = "s_started_at"
    /\ clock' = clock + 1
    /\ IF MapHas(container_map, cid[w])
       THEN /\ container_map' = container_map
            /\ Goto(w, "s_status")
       ELSE /\ Fail(w, Err("ContainerNotFoundError", cid[w]))
            /\ UNCHANGED container_map
    /\ UNCHANGED <<mgrVars, disk, runc, used, ops, createHist, seq>>
    /\ UNCHANGED runc_calls

\* update_container_started_at(&container_id, SystemTime::now())
StartStartedAt(w) ==
    /\ pc[w] = "s_started_at"
    /\ clock' = clock + 1
    /\ IF MapHas(container_map, cid[w])
       THEN /\ container_map' = MapUpdateStartTime(container_map, cid[w], clock')
            /\ Goto(w, "s_status")
       ELSE /\ Fail(w, Err("ContainerNotFoundError", cid[w]))
            /\ UNCHANGED container_map
    /\ UNCHANGED <<mgrVars, disk, runc, used, ops, createHist, seq>>
    /\ UNCHANGED runc_calls

\* update_container_status(&container_id, Status::Running)
StartStatus(w) ==
    /\ pc[w] = "s_status"
    /\ IF MapHas(container_map, cid[w])
       THEN /\ container_map' = MapUpdateStatus(container_map, cid[w], "Running")
            /\ Goto(w, "p_get")
       ELSE /\ Fail(w, Err("ContainerNotFoundError", cid[w]))
            /\ UNCHANGED container_map
    /\ UNCHANGED <<mgrVars, disk, runc, clock, used, ops, createHist, seq>>
    /\ UNCHANGED runc_calls

\* stop_container without the check that the container is Running
StopContainerUnchecked(w, i) ==
    /\ Accept(w)
    /\ IF ~MapHas(container_map, i)
       THEN Reject(w, "stop", i, Err("ContainerNotFoundError", i))
       ELSE Begin(w, "stop", i, "k_runc")
    /\ UNCHANGED <<mgrVars, container_map, disk, runc, clock, used, buf, todo, err,
                   fd, st, prev, overlap, createHist, seq>>
    /\ UNCHANGED runc_calls

\* ------------------------------------------- ContainerManager::stop_container
\* the lookup and the check that the container is Running
StopContainer(w, i) ==
    /\ Accept(w)
    /\ IF ~MapHas(container_map, i)
       THEN Reject(w, "stop", i, Err("ContainerNotFoundError", i))
       ELSE IF container_map[i].status # "Running"
       THEN Reject(w, "stop", i, Err("StopContainerNotInRunningStateError", i))
       ELSE Begin(w, "stop", i, "k_runc")
    /\ UNCHANGED <<mgrVars, container_map, disk, runc, clock, used, buf, todo, err,
                   fd, st, prev, overlap, createHist, seq>>
    /\ UNCHANGED runc_calls

\* ContainerRuntime::kill_container: `runc kill <id> 9`, waited for
StopRunc(w) ==
    /\ pc[w] = "k_runc"
    /\ \E out \in {"ok", "RuncError"} :
         IF out = "ok"
         THEN /\ runc' = IF runc[cid[w]] \in {"created", "starting", "running", "paused"}
                         THEN [runc EXCEPT ![cid[w]] = "stopped"] ELSE runc
              /\ Goto(w, "k_status")
         ELSE /\ Fail(w, RuncError("Kill", cid[w]))
              /\ UNCHANGED runc
    /\ UNCHANGED <<mgrVars, container_map, disk, clock, used, ops, createHist, seq>>
    /\ Invoke("Kill", cid[w])

\* stop_container marking the container Unknown instead of Stopped
StopStatusUnknown(w) ==
    /\ pc[w] = "k_status"
    /\ IF MapHas(container_map, cid[w])
       THEN /\ container_map' = MapUpdateStatus(container_map, cid[w], "Unknown")
            /\ Goto(w, "p_get")
       ELSE /\ Fail(w, Err("ContainerNotFoundError", cid[w]))
            /\ UNCHANGED container_map
    /\ UNCHANGED <<mgrVars, disk, runc, clock, used, ops, createHist, seq>>
    /\ UNCHANGED runc_calls

\* update_container_status(&container_id, Status::Stopped)
StopStatus(w) ==
    /\ pc[w] = "k_status"
    /\ IF MapHas(container_map, cid[w])
       THEN /\ container_map' = MapUpdateStatus(container_map, cid[w], "Stopped")
            /\ Goto(w, "p_get")
       ELSE /\ Fail(w, Err("ContainerNotFoundError", cid[w]))
            /\ UNCHANGED container_map
    /\ UNCHANGED <<mgrVars, disk, runc, clock, used, ops, createHist, seq>>
    /\ UNCHANGED runc_calls

\* ----------------------------------------- ContainerManager::delete_container
\* the lookup and the check that the container is Stopped or Created
DeleteContainer(w, i) ==
    /\ Accept(w)
    /\ IF ~MapHas(container_map, i)
       THEN Reject(w, "delete", i, Err("ContainerNotFoundError", i))
       ELSE IF container_map[i].status # "Stopped" /\ container_map[i].status # "Created"
       THEN Reject(w, "delete", i, Err("DeleteContainerNotInDeleteableStateError", i))
       ELSE Begin(w, "delete", i, "d_runc")
    /\ UNCHANGED <<mgrVars, container_map, disk, runc, clock, used, buf, todo, err,
                   fd, st, prev, overlap, createHist, seq>>
    /\ UNCHANGED runc_calls

\* ContainerRuntime::delete_container(container_id)?: `runc delete`, waited for;
\* Ok whatever its exit status, Err when it cannot be run
DeleteRunc(w) ==
    /\ pc[w] = "d_runc"
    /\ \E out \in {"ok", "RuncError"} :
         IF out = "ok"
         THEN /\ runc' = IF runc[cid[w]] \in {"created", "stopped"}
                         THEN [runc EXCEPT ![cid[w]] = "none"] ELSE runc
              /\ Goto(w, "d_map")
         ELSE /\ Fail(w, RuncError("Delete", cid[w]))
              /\ UNCHANGED runc
    /\ UNCHANGED <<mgrVars, container_map, disk, clock, used, ops, createHist, seq>>
    /\ Invoke("Delete", cid[w])

\* delete_container without container_map.remove
DeleteMapKept(w) ==
    /\ pc[w] = "d_map"
    /\ container_map' = container_map
    /\ Goto(w, "d_dir")
    /\ UNCHANGED <<mgrVars, disk, runc, clock, used, ops, createHist, seq>>
    /\ UNCHANGED runc_calls

\* self.container_map.remove(&container_id)
DeleteMap(w) ==
    /\ pc[w] = "d_map"
    /\ container_map' = MapRemove(container_map, cid[w])
    /\ Goto(w, "d_dir")
    /\ UNCHANGED <<mgrVars, disk, runc, clock, used, ops, createHist, seq>>
    /\ UNCHANGED runc_calls

\* self.container_store.remove_container_directory(&container_id), where
\* remove_dir_all removes the entries of the directory
DeleteDir(w) ==
    /\ pc[w] = "d_dir"
    /\ disk' = StoreRemoveEntries(disk, cid[w])
    /\ pc' = Reset(pc, w, "d_rmdir")
    /\ fd' = Unlinked(cid[w])
    /\ overlap' = Cut(cid[w])
    /\ UNCHANGED <<op, cid, buf, todo, err, st, res, prev, shared>>
    /\ UNCHANGED <<mgrVars, container_map, runc, clock, used, ops, createHist, seq>>
    /\ UNCHANGED runc_calls

\* remove_dir_all ends with the rmdir of the directory; Ok(())
DeleteRmdir(w) ==
    /\ pc[w] = "d_rmdir"
    /\ disk' = StoreRmdir(disk, cid[w])
    /\ Return(w, TRUE, NoErr, {})
    /\ UNCHANGED <<mgrVars, container_map, runc, clock, used, ops, createHist, seq>>
    /\ UNCHANGED runc_calls

\* -------------------------------------------- ContainerManager::get_container
\* the first step of sync_container_status_with_runtime: get_container_status
GetContainer(w, i) ==
    /\ Accept(w)
    /\ \E out \in GetStatusOutcomes(runc[i]) :
         LET got == get_container_status(out, i)
         IN  IF got.ok
             THEN /\ Begin(w, "get", i, "y_update")
                  /\ st' = Reset(st, w, got.status)
             ELSE /\ Reject(w, "get", i, got.err)
                  /\ UNCHANGED st
    /\ UNCHANGED <<mgrVars, container_map, disk, runc, clock, used, buf, todo, err,
                   fd, prev, overlap, createHist, seq>>
    /\ Invoke("State", i)

\* self.container_map.get(container_id) after the sync
GetReturn(w) ==
    /\ pc[w] = "g_get"
    /\ IF MapHas(container_map, cid[w])
       THEN Return(w, TRUE, NoErr, {container_map[cid[w]]})
       ELSE Return(w, FALSE, Err("ContainerNotFoundError", cid[w]), {})
    /\ UNCHANGED <<mgrVars, container_map, disk, runc, clock, used, ops, createHist, seq>>
    /\ UNCHANGED runc_calls

\* ------------------------------------------ ContainerManager::list_containers
\* the first self.container_map.list(): the containers to sync
ListContainers(w) ==
    /\ Accept(w)
    /\ Begin(w, "list", 0, "l_loop")
    /\ todo' = Reset(todo, w, DOMAIN container_map)
    /\ UNCHANGED <<mgrVars, container_map, disk, runc, clock, used, buf, err,
                   fd, st, prev, overlap, createHist, seq>>
    /\ UNCHANGED runc_calls

\* list_containers that skips a container whose reconciliation fails
ListLoopSkipsFailed(w) ==
    /\ pc[w] = "l_loop"
    /\ IF todo[w] = {}
       THEN /\ Return(w, TRUE, NoErr, MapList(container_map))
            /\ UNCHANGED runc_calls
       ELSE \E i \in todo[w] : \E out \in GetStatusOutcomes(runc[i]) :
              LET got == get_container_status(out, i)
              IN  /\ Invoke("State", i)
                  /\ IF got.ok
                     THEN /\ pc' = Reset(pc, w, "y_update")
                          /\ cid' = Reset(cid, w, i)
                          /\ todo' = Reset(todo, w, todo[w] \ {i})
                          /\ st' = Reset(st, w, got.status)
                          /\ UNCHANGED <<op, buf, err, fd, res, prev, overlap, shared>>
                     ELSE /\ todo' = Reset(todo, w, todo[w] \ {i})
                          /\ UNCHANGED <<pc, op, cid, buf, err, fd, st, res, prev, overlap, shared>>
    /\ UNCHANGED <<mgrVars, container_map, disk, runc, clock, used, ops, createHist, seq>>

\* the loop over the snapshot: get_container_status for its next container,
\* or, the snapshot done, the second self.container_map.list()
ListLoop(w) ==
    /\ pc[w] = "l_loop"
    /\ IF todo[w] = {}
       THEN /\ Return(w, TRUE, NoErr, MapList(container_map))
            /\ UNCHANGED runc_calls
       ELSE \E i \in todo[w] : \E out \in GetStatusOutcomes(runc[i]) :
              LET got == get_container_status(out, i)
              IN  /\ Invoke("State", i)
                  /\ IF got.ok
                     THEN /\ pc' = Reset(pc, w, "y_update")
                          /\ cid' = Reset(cid, w, i)
                          /\ todo' = Reset(todo, w, todo[w] \ {i})
                          /\ st' = Reset(st, w, got.status)
                          /\ UNCHANGED <<op, buf, err, fd, res, prev, overlap, shared>>
                     ELSE Return(w, FALSE, got.err, {})
    /\ UNCHANGED <<mgrVars, container_map, disk, runc, clock, used, ops, createHist, seq>>

\* ------------------------------------------------------------ the runtime
\* the spawned `runc create` ends: the container exists if its bundle is
\* complete, and the runtime knows nothing of it otherwise
RuncCreateExits(i) ==
    /\ phase = "serving"
    /\ runc[i] = "spawned"
    /\ \E r \in {"created", "none"} :
         /\ r = "created" => DirExists(disk, i) /\ disk[i].bundle = "config"
         /\ runc' = [runc EXCEPT ![i] = r]
    /\ UNCHANGED <<mgrVars, container_map, disk, clock, used, ops, workerVars, createHist, seq>>
    /\ UNCHANGED runc_calls

\* the spawned `runc start` ends: the container's process runs
RuncStartExits(i) ==
    /\ phase = "serving"
    /\ runc[i] = "starting"
    /\ runc' = [runc EXCEPT ![i] = "running"]
    /\ UNCHANGED <<mgrVars, container_map, disk, clock, used, ops, workerVars, createHist, seq>>
    /\ UNCHANGED runc_calls

\* the container's process exits
RuncProcessExits(i) ==
    /\ phase = "serving"
    /\ runc[i] = "running"
    /\ runc' = [runc EXCEPT ![i] = "stopped"]
    /\ UNCHANGED <<mgrVars, container_map, disk, clock, used, ops, workerVars, createHist, seq>>
    /\ UNCHANGED runc_calls

\* someone pauses or resumes the container with runc
RuncPauseResume(i) ==
    /\ phase = "serving"
    /\ runc[i] \in {"running", "paused"}
    /\ runc' = [runc EXCEPT ![i] = IF runc[i] = "running" THEN "paused" ELSE "running"]
    /\ UNCHANGED <<mgrVars, container_map, disk, clock, used, ops, workerVars, createHist, seq>>
    /\ UNCHANGED runc_calls

Next ==
    \/ New
    \/ \E i \in Ids : ReloadContainer(i)
    \/ ReloadReturn
    \/ \E w \in Workers :
         \/ CreateContainer(w)
         \/ CreateDir(w)
         \/ CreateBundle(w)
         \/ CreateSpec(w)
         \/ CreateRunc(w)
         \/ CreateCreatedAt(w)
         \/ CreateStatus(w)
         \/ RollbackMap(w)
         \/ RollbackDir(w)
         \/ RollbackRmdir(w)
         \/ PersistGet(w)
         \/ PersistWrite(w)
         \/ PersistWriteEnd(w)
         \/ PersistRename(w)
         \/ SyncUpdate(w)
         \/ StartRunc(w)
         \/ StartStartedAt(w)
         \/ StartStatus(w)
         \/ StopRunc(w)
         \/ StopStatus(w)
         \/ DeleteRunc(w)
         \/ DeleteMap(w)
         \/ DeleteDir(w)
         \/ DeleteRmdir(w)
         \/ GetReturn(w)
         \/ ListContainers(w)
         \/ ListLoop(w)
         \/ \E i \in Ids :
              \/ StartContainer(w, i)
              \/ StopContainer(w, i)
              \/ DeleteContainer(w, i)
              \/ GetContainer(w, i)
    \/ \E i \in Ids :
         \/ RuncCreateExits(i)
         \/ RuncStartExits(i)
         \/ RuncProcessExits(i)
         \/ RuncPauseResume(i)

Spec == Init /\ [][Next]_vars

\* ------------------------------------------------------------ properties
\* worker w takes a request in this step
Called(w) ==
    /\ ops' = ops + 1
    /\ pc[w] = "idle"
    /\ \A v \in Workers : v < w => pc[v] # "idle"

\* the handler that call runs and the container id it was given
CalledOp(w) == IF op'[w] # "" THEN op'[w] ELSE res'[w].op
CalledId(w) == IF op'[w] # "" THEN cid'[w] ELSE res'[w].id

\* the statuses the lifecycle table allows each handler to act on
Allowed(o, status) ==
    CASE o = "start"  -> status = "Created"
      [] o = "stop"   -> status = "Running"
      [] o = "delete" -> status \in {"Created", "Stopped"}

PreconditionError(o) ==
    CASE o = "start"  -> "StartContainerNotInCreatedStateError"
      [] o = "stop"   -> "StopContainerNotInRunningStateError"
      [] o = "delete" -> "DeleteContainerNotInDeleteableStateError"

\* C1: start, stop or delete of a registered container whose status the
\* handler does not accept returns the handler's precondition error at once,
\* runs no runc command, and leaves the map, the disk and the runtime as they were
C1_PreconditionEnforced ==
    [][\A w \in Workers :
         (/\ Called(w)
          /\ CalledOp(w) \in {"start", "stop", "delete"}
          /\ MapHas(container_map, CalledId(w))
          /\ ~Allowed(CalledOp(w), container_map[CalledId(w)].status))
         => /\ pc'[w] = "idle"
            /\ res'[w].ok = FALSE
            /\ res'[w].err = Err(PreconditionError(CalledOp(w)), CalledId(w))
            /\ UNCHANGED <<container_map, disk, runc, runc_calls>>]_vars

\* C1 witness: stop_container of a container that is Created was refused, and
\* the container is still Created
C1_Witness ==
    \E w \in Workers :
        /\ res[w].op = "stop"
        /\ res[w].err.kind = "StopContainerNotInRunningStateError"
        /\ MapHas(container_map, res[w].id)
        /\ container_map[res[w].id].status = "Created"

\* C2 (as claimed): once a create_container call has returned an error,
\* neither the map nor the containers directory holds an entry for the id it
\* generated
C2_RollbackComplete ==
    \A i \in create_failed : ~MapHas(container_map, i) /\ ~DirExists(disk, i)

\* C3 (as claimed): a create_container call during which `runc spec` exited
\* with a non-zero status returns an error and leaves no entry for its id
C3_SpecExitFailsCreate ==
    \A w \in Workers :
        (res[w].op = "create" /\ spec_exit[res[w].id] = "nonzero")
        => /\ ~res[w].ok
           /\ ~MapHas(container_map, res[w].id)
           /\ ~DirExists(disk, res[w].id)

\* C4 (as claimed): a delete_container call that got past the status check
\* returns success with the map entry and the directory gone, whatever the
\* runtime delete invocation did
C4_RuntimeDeleteErrorSwallowed ==
    \A w \in Workers :
        (/\ res[w].op = "delete"
         /\ res[w].err.kind \notin {"ContainerNotFoundError",
                                    "DeleteContainerNotInDeleteableStateError"})
        => /\ res[w].ok
           /\ ~MapHas(container_map, res[w].id)
           /\ ~DirExists(disk, res[w].id)

\* reload has visited every directory and new is about to return Ok
ReloadOver == phase = "reload" /\ reload_ids = {}

\* reload's three steps all succeeded for container i
Reloaded(i) ==
    reload_log[i].parsed /\ reload_log[i].stdout # "-" /\ reload_log[i].persisted

\* C5 (as claimed): when new returns Ok, the ids in the map are exactly the
\* on-disk ids whose state file parsed and whose runtime state lookup succeeded
C5_RegistryIsParsedAndFound ==
    ReloadOver =>
        DOMAIN container_map =
            {i \in Ids : reload_log[i].parsed /\ reload_log[i].stdout # "-"}

\* C5 (amended): when new returns Ok, the ids in the map are exactly the
\* on-disk ids whose state file parsed, whose runtime state lookup succeeded
\* and whose refreshed record was persisted
C5_RegistryIsReloaded ==
    ReloadOver => DOMAIN container_map = {i \in Ids : Reloaded(i)}

\* C5 witness: new is about to return Ok, and a container whose state file
\* parsed and which runc knew is not in the map, because persisting its
\* refreshed record failed
C5_Witness ==
    /\ ReloadOver
    /\ \E i \in Ids :
           /\ reload_log[i].parsed /\ reload_log[i].stdout # "-"
           /\ ~reload_log[i].persisted
           /\ ~MapHas(container_map, i)

C7_ReloadConsistent ==
    ReloadOver =>
        \A i \in DOMAIN container_map :
            /\ DirExists(disk, i)
            /\ StoreReadable(disk, i)
            /\ container_map[i].status = from_runc_status(reload_log[i].stdout)
            /\ Deserialize(disk[i].state).status = container_map[i].status
            /\ reload_log[i].stdout = "paused" => container_map[i].status = "Paused"

\* C7 witness: runc reported `paused` for a container whose state file held
\* another status, and the container is listed as Paused
C7_Witness ==
    /\ ReloadOver
    /\ \E i \in DOMAIN container_map :
           reload_log[i].stdout = "paused" /\ container_map[i].status = "Paused"

\* C8: while one worker alone persists a record, and after its last step,
\* container.state holds the bytes it held before or the complete new record
C8_PersistAtomic ==
    [][\A w \in Workers :
         (/\ pc[w] \in {"p_write", "p_write_end", "p_rename"}
          /\ pc'[w] # "p_write"
          /\ ~overlap[w] /\ ~overlap'[w]
          /\ DirExists(disk', buf[w].id))
         => LET before == IF pc[w] = "p_write" THEN disk[buf[w].id].state ELSE prev[w]
            IN  /\ disk'[buf[w].id].state \in {before, Serialize(buf[w])}
                /\ Parses(before) => Parses(disk'[buf[w].id].state)]_vars

\* C8 witness: the temporary file is half written while container.state
\* still holds the complete previous record, which differs from the new one
C8_Witness ==
    \E w \in Workers :
        /\ pc[w] = "p_write_end"
        /\ ~overlap[w]
        /\ disk[buf[w].id].temp = Partial(Serialize(buf[w]))
        /\ disk[buf[w].id].state = prev[w]
        /\ Parses(prev[w])
        /\ prev[w] # Serialize(buf[w])

\* C9: no state file on disk parses to a record whose status is Initialized
C9_NeverPersistInitialized ==
    \A i \in DOMAIN disk :
        Parses(disk[i].state) => Deserialize(disk[i].state).status # "Initialized"

\* C9 witness: a record has been persisted for a container whose create is
\* still between `runc create` and update_container_status(Created)
C9_Witness ==
    \E w \in Workers :
        /\ op[w] = "create"
        /\ pc[w] \in {"c_created_at", "c_status"}
        /\ DirExists(disk, cid[w])
        /\ Parses(disk[cid[w]].state)

\* C10 (as claimed): a list that list_containers returns holds no record
\* whose status is Initialized
C10_ListNeverInitialized ==
    \A w \in Workers :
        (res[w].op = "list" /\ res[w].ok)
        => \A c \in res[w].val : c.status # "Initialized"

\* the statuses create, start and stop set
ApiStatuses == {"Created", "Running", "Stopped"}

\* C11 (as claimed): every record in the map is Created, Running or Stopped,
\* or Paused or Unknown
C11_ApiStatusesOnly ==
    \A i \in DOMAIN container_map :
        container_map[i].status \in ApiStatuses \cup {"Paused", "Unknown"}

\* C12 (as claimed): every record in the map that is Created, Running or
\* Stopped has created_at set
C12_CreatedAtSet ==
    \A i \in DOMAIN container_map :
        container_map[i].status \in ApiStatuses => container_map[i].created_at # 0

\* C13 (as claimed): every record in the map that is Running or Stopped has
\* started_at set
C13_StartedAtSet ==
    \A i \in DOMAIN container_map :
        container_map[i].status \in {"Running", "Stopped"}
        => container_map[i].started_at # 0

\* the edges of the lifecycle state machine, and the changes reconciliation
\* makes to Paused and Unknown
LifecycleEdge(from, to) ==
    \/ from = "Initialized" /\ to = "Created"
    \/ from = "Created" /\ to = "Running"
    \/ from = "Running" /\ to = "Stopped"
    \/ to \in {"Paused", "Unknown"}

Sets(w, i, to) ==
    /\ cid[w] = i
    /\ \/ pc[w] = "c_status" /\ to = "Created"
       \/ pc[w] = "s_status" /\ to = "Running"
       \/ pc[w] = "k_status" /\ to = "Stopped"
       \/ pc[w] = "y_update" /\ to = st[w]

Removing(i) ==
    \E w \in Workers :
        /\ cid[w] = i
        /\ pc[w] \in {"c_rb_map", "c_rb_dir", "c_rb_rmdir", "d_map", "d_dir", "d_rmdir"}

\* C15 (as claimed): every record in the map has a directory, and every
\* directory has a parseable state file and a record in the map or is about
\* to be removed by a delete, a create rollback or reload
C15_RegistryMatchesDisk ==
    phase = "serving" =>
        /\ \A i \in DOMAIN container_map : DirExists(disk, i)
        /\ \A i \in DOMAIN disk :
               \/ StoreReadable(disk, i) /\ MapHas(container_map, i)
               \/ Removing(i)

\* the statuses one `runc state` of container i can be translated to now
Reportable(i) == {from_runc_status(o) : o \in RuncStateStdout(runc[i]) \ {""}}

\* the state file of container i parses to a record with this status
PersistedStatus(d, i, status) ==
    /\ StoreReadable(d, i)
    /\ Deserialize(d[i].state).status = status

\* the step in which the k-th call of the scripted client returns
Done(k) ==
    /\ seq /\ ops' = k
    /\ pc'[1] = "idle"
    /\ pc[1] # "idle" \/ ops = k - 1

\* the status of the record a get_container returned, "-" when it returned none
Shown(r) == IF r.val = {} THEN "-" ELSE (CHOOSE c \in r.val : TRUE).status

\* the status of container i in map m, "-" when m has no record of it
StatusIn(m, i) == IF MapHas(m, i) THEN m[i].status ELSE "-"

\* C17: for the client that calls create, get, start, get, stop, get, delete
\* and get in turn on one container, each call made when the one before
\* returned Ok: create leaves a Created record; each get reconciles with a
\* status the runtime can report and, when it returns Ok, shows that status
\* (Created for created, Running for running, Stopped for stopped); start,
\* stop and delete are not refused when the get before them showed Created,
\* Running and Stopped; start leaves the record Running and stop leaves it
\* Stopped; delete leaves neither record nor directory; and the last get
\* fails, with ContainerNotFound unless `runc state` could not be run or
\* printed no JSON
C17_HappyPath ==
    [][/\ (Done(1) /\ res'[1].ok)
          => StatusIn(container_map', res'[1].id) = "Created"
       /\ \A k \in {2, 4, 6} :
            /\ (seq /\ Called(1) /\ ops = k - 1 /\ pc'[1] # "idle")
               => (op'[1] = "get" /\ st'[1] \in Reportable(cid'[1]))
            /\ (Done(k) /\ res'[1].ok)
               => /\ Shown(res'[1]) = st[1]
                  /\ StatusIn(container_map', res'[1].id) = st[1]
            /\ (seq /\ Called(1) /\ ops = k
                /\ Shown(res[1]) = (CASE k = 2 -> "Created" [] k = 4 -> "Running"
                                      [] k = 6 -> "Stopped"))
               => (pc'[1] # "idle" /\ cid'[1] = res[1].id)
       /\ (Done(3) /\ res'[1].ok) => StatusIn(container_map', res'[1].id) = "Running"
       /\ (Done(5) /\ res'[1].ok) => StatusIn(container_map', res'[1].id) = "Stopped"
       /\ (Done(7) /\ res'[1].ok)
          => (~MapHas(container_map', res'[1].id) /\ ~DirExists(disk', res'[1].id))
       /\ Done(8)
          => /\ ~res'[1].ok
             /\ \/ res'[1].err = Err("ContainerNotFoundError", res'[1].id)
                \/ res'[1].err.kind \in {"RuncError", "ParseContainerStatusError"}]_vars

\* C17 witness: the eight calls have been made, the first seven returned Ok
\* and the last returned ContainerNotFound for the id create returned
C17_Witness ==
    /\ seq /\ ops = Len(Script) /\ pc[1] = "idle"
    /\ res[1].op = "get" /\ res[1].err.kind = "ContainerNotFoundError"
    /\ res[1].id \in used
    /\ ~MapHas(container_map, res[1].id) /\ ~DirExists(disk, res[1].id)

\* C18: when a start_container that no other call on the same container
\* overlapped returns Ok, the record in the map and the state file are both
\* Running with started_at set, whatever the runtime knows of the container
C18_StartIsOptimistic ==
    [][\A w \in Workers :
         (op[w] = "start" /\ ~shared[w] /\ pc'[w] = "idle" /\ res'[w].ok)
         => LET i == cid[w]
            IN  /\ MapHas(container_map', i)
                /\ container_map'[i].status = "Running"
                /\ container_map'[i].started_at # 0
                /\ PersistedStatus(disk', i, "Running")
                /\ Deserialize(disk'[i].state).started_at = container_map'[i].started_at]_vars

\* C18 witness: start_container has returned Ok and the record is Running
\* while the runtime has not started the container
C18_Witness ==
    \E w \in Workers :
        /\ res[w].op = "start" /\ res[w].ok
        /\ MapHas(container_map, res[w].id)
        /\ container_map[res[w].id].status = "Running"
        /\ runc[res[w].id] \in {"created", "starting"}
        /\ \A v \in Workers \ {w} : res[v].op = "" /\ pc[v] = "idle"

\* C19: a get_container reconciles with a status the runtime can report at
\* that moment; when no other call on the same container overlapped it and
\* it returns Ok, the record it returns, the record in the map and the state
\* file all have that status
C19_GetReturnsRuntimeStatus ==
    [][\A w \in Workers :
         /\ (Called(w) /\ op'[w] = "get") => st'[w] \in Reportable(cid'[w])
         /\ (op[w] = "get" /\ ~shared[w] /\ pc'[w] = "idle" /\ res'[w].ok)
            => LET i == cid[w]
               IN  /\ \E c \in res'[w].val : res'[w].val = {c} /\ c.id = i /\ c.status = st[w]
                   /\ MapHas(container_map', i)
                   /\ container_map'[i].status = st[w]
                   /\ PersistedStatus(disk', i, st[w])]_vars

\* C19 witness: a get_container, the only call made so far, returned a
\* Paused record, the runtime having reported paused
C19_Witness ==
    \E w \in Workers :
        /\ res[w].op = "get" /\ res[w].ok
        /\ \E c \in res[w].val : c.status = "Paused" /\ runc[c.id] = "paused"
        /\ \A v \in Workers \ {w} : res[v].op = "" /\ pc[v] = "idle"

\* the positions of sync_container_status_with_runtime after the runtime lookup
SyncPcs == {"y_update", "p_get", "p_write", "p_write_end", "p_rename"}

\* C20: list_containers returns a list only once its snapshot is exhausted; a
\* container leaves the snapshot only when the runtime lookup for it
\* succeeded; and its reconciliation then either completes with the rename
\* of the state file (which holds the record when no other persist of that
\* container ran meanwhile), or makes the call return an error
C20_ListFailsOnAnySyncError ==
    [][\A w \in Workers :
         op[w] = "list" =>
           /\ (pc'[w] = "idle" /\ res'[w].ok) => (pc[w] = "l_loop" /\ todo[w] = {})
           /\ todo'[w] # todo[w] =>
                \/ pc'[w] = "idle"
                \/ \E i \in todo[w] :
                      /\ todo'[w] = todo[w] \ {i}
                      /\ pc'[w] = "y_update" /\ cid'[w] = i
                      /\ st'[w] \in Reportable(i)
           /\ (pc[w] \in SyncPcs /\ pc'[w] \notin SyncPcs) =>
                \/ pc'[w] = "idle" /\ ~res'[w].ok
                \/ /\ pc[w] = "p_rename" /\ pc'[w] = "l_loop"
                   /\ ~overlap[w] => disk'[cid[w]].state = Serialize(buf[w])]_vars

\* C20 witness: list_containers returned the runtime's not-found error for a
\* container of its snapshot, the map not being empty
C20_Witness ==
    \E w \in Workers :
        /\ res[w].op = "list" /\ ~res[w].ok
        /\ res[w].err.kind = "ContainerNotFoundError"
        /\ container_map # << >>
        /\ \E i \in DOMAIN container_map : runc[i] = "none"

\* the positions at which a handler looks container cid[w] up in the map
MapLookupPcs == {"s_started_at", "s_status", "k_status", "y_update", "p_get", "g_get"}

\* C21 (as claimed): a get, list, start, stop or delete that fails because
\* the map has no record of the id, at its first lookup or at a later one
\* after a concurrent delete removed the record, returns ContainerNotFound
\* carrying that id; and so does one that fails because `runc state` printed
\* nothing for the id
C21_NotFoundKind ==
    [][\A w \in Workers :
         /\ (/\ Called(w) /\ pc'[w] = "idle"
             /\ CalledOp(w) \in {"start", "stop", "delete"}
             /\ ~MapHas(container_map, CalledId(w)))
            => res'[w].err = Err("ContainerNotFoundError", CalledId(w))
         /\ (/\ op[w] \in {"get", "list", "start", "stop", "delete"}
             /\ pc[w] \in MapLookupPcs
             /\ ~MapHas(container_map, cid[w])
             /\ pc'[w] = "idle")
            => res'[w].err = Err("ContainerNotFoundError", cid[w])
         /\ (/\ Called(w) /\ pc'[w] = "idle" /\ CalledOp(w) = "get"
             /\ RuncStateStdout(runc[CalledId(w)]) = {""})
            => \/ res'[w].err = Err("ContainerNotFoundError", CalledId(w))
               \/ res'[w].err.kind \in {"RuncError", "ParseContainerStatusError"}]_vars

\* C22 (as claimed): once a start_container on a container has returned Ok,
\* no step changes the started_at of its record; and no step changes a
\* created_at that is set
C22_TimesSetOnce ==
    [][\A i \in DOMAIN container_map \cap DOMAIN container_map' :
         /\ (/\ container_map[i].started_at # 0
             /\ \E v \in Workers : res[v].op = "start" /\ res[v].id = i /\ res[v].ok)
            => container_map'[i].started_at = container_map[i].started_at
         /\ container_map[i].created_at # 0
            => container_map'[i].created_at = container_map[i].created_at]_vars

\* C23: no step changes the id, name, command, args or exit_code of a record
\* that stays in the map, and every record in the map has exit_code -1
C23_OnlyStatusAndTimesMutated ==
    [][/\ \A i \in DOMAIN container_map \cap DOMAIN container_map' :
            /\ container_map'[i].id = container_map[i].id
            /\ container_map'[i].name = container_map[i].name
            /\ container_map'[i].command = container_map[i].command
            /\ container_map'[i].args = container_map[i].args
            /\ container_map'[i].exit_code = container_map[i].exit_code
       /\ \A i \in DOMAIN container_map' : container_map'[i].exit_code = -1]_vars

\* C23 witness: a record that create_container inserted has since had its
\* created_at, its started_at and its status set, and still has the name,
\* command, args and exit_code it was inserted with
C23_Witness ==
    \E i \in DOMAIN container_map \ PreIds :
        /\ container_map[i].status = "Running"
        /\ container_map[i].created_at # 0
        /\ container_map[i].started_at # 0
        /\ container_map[i] = [new(i, "c1", "sh", <<"-c">>) EXCEPT
                                  !.status = "Running",
                                  !.created_at = container_map[i].created_at,
                                  !.started_at = container_map[i].started_at]

\* ------------------------------------------- Status::from_runc_status alone
\* status strings a `runc state` document can carry: the ones runc prints,
\* and others
RuncStatusStrings ==
    {"created", "running", "pausing", "paused", "stopped",
     "creating", "Created", "initialized", "unknown", ""}

\* the runtime has printed some status string for each container, and no
\* request has been served yet
StatusInit ==
    /\ phase = "serving"
    /\ reload_ids = {}
    /\ container_map = [j \in {} |-> NoContainer]
    /\ disk = [j \in {} |-> EmptyDir]
    /\ runc = [i \in Ids |-> "none"]
    /\ clock = 1
    /\ used = {}
    /\ ops = 0
    /\ pc = [w \in Workers |-> "idle"]
    /\ op = [w \in Workers |-> ""]
    /\ cid = [w \in Workers |-> 0]
    /\ buf = [w \in Workers |-> NoContainer]
    /\ todo = [w \in Workers |-> {}]
    /\ err = [w \in Workers |-> NoErr]
    /\ fd = [w \in Workers |-> "none"]
    /\ st = [w \in Workers |-> ""]
    /\ res = [w \in Workers |-> NoRes]
    /\ reload_log \in [Ids -> {[NoLog EXCEPT !.stdout = s] : s \in RuncStatusStrings}]
    /\ create_failed = {}
    /\ spec_exit = [i \in Ids |-> "-"]
    /\ runc_calls = [i \in Ids |-> [m \in RuncMethod |-> 0]]
    /\ prev = [w \in Workers |-> NoFile]
    /\ overlap = [w \in Workers |-> FALSE]
    /\ shared = [w \in Workers |-> FALSE]
    /\ seq = FALSE

\* get_container_status of worker w: Ok(Status::from_runc_status(&runc_status))
\* for the status string printed for container i
Translate(w, i) ==
    /\ cid' = [cid EXCEPT ![w] = i]
    /\ st' = [st EXCEPT ![w] = from_runc_status(reload_log[i].stdout)]
    /\ UNCHANGED <<phase, reload_ids, container_map, disk, runc, clock, used, ops,
                   pc, op, buf, todo, err, fd, res,
                   reload_log, create_failed, spec_exit, runc_calls, prev, overlap,
                   shared, seq>>

StatusNext == \E w \in Workers, i \in Ids : Translate(w, i)

StatusSpec == StatusInit /\ [][StatusNext]_vars

\* C24: every status string is translated: created to Created, running and
\* pausing to Running, paused to Paused, stopped to Stopped, any other string
\* to Unknown, and none to Initialized
C24_TranslationTable ==
    \A w \in Workers :
        cid[w] # 0 =>
            LET s == reload_log[cid[w]].stdout
            IN  /\ s = "created" => st[w] = "Created"
                /\ s \in {"running", "pausing"} => st[w] = "Running"
                /\ s = "paused" => st[w] = "Paused"
                /\ s = "stopped" => st[w] = "Stopped"
                /\ s \notin {"created", "running", "pausing", "paused", "stopped"}
                   => st[w] = "Unknown"
                /\ st[w] \in Statuses \ {"Initialized"}

\* C24 witness: pausing has been translated to Running, and a string runc
\* does not print to Unknown
C24_Witness ==
    \E w, v \in Workers :
        /\ cid[w] # 0 /\ reload_log[cid[w]].stdout = "pausing" /\ st[w] = "Running"
        /\ cid[v] # 0 /\ reload_log[cid[v]].stdout = "initialized" /\ st[v] = "Unknown"

\* C25 (as claimed): no two workers are at the same time between the opening
\* of container.state.temp and the rename onto container.state of the same
\* container
C25_PersistsNeverOverlap ==
    \A w, v \in Workers :
        (/\ w # v
         /\ pc[w] \in {"p_write_end", "p_rename"}
         /\ pc[v] \in {"p_write_end", "p_rename"})
        => buf[w].id # buf[v].id

\* the positions create_container_helper goes through after ContainerMap::add
CreateSteps ==
    <<"c_dir", "c_bundle", "c_spec", "c_runc", "c_created_at", "c_status",
      "p_get", "p_write", "p_write_end", "p_rename">>

StepOf(p) == CHOOSE k \in 1..Len(CreateSteps) : CreateSteps[k] = p

\* C27 (as claimed): create_container first inserts an Initialized record and
\* touches neither disk nor runtime; each later step (directory, bundle,
\* runtime spec, runtime create, created_at, status Created, persist) is
\* followed by the next one or by rollback, has the effect of that step only,
\* and runs after the earlier ones succeeded, `runc spec` having exited with
\* status zero before `runc create` is run; Ok is returned after the persist only
C27_CreateOrder ==
    [][\A w \in Workers :
         /\ (Called(w) /\ CalledOp(w) = "create") =>
              /\ pc'[w] \in {"c_dir", "c_rb_map"}
              /\ pc'[w] = "c_dir" =>
                   /\ ~MapHas(container_map, cid'[w])
                   /\ MapHas(container_map', cid'[w])
                   /\ container_map'[cid'[w]].status = "Initialized"
                   /\ ~DirExists(disk, cid'[w])
                   /\ runc[cid'[w]] = "none"
              /\ UNCHANGED <<disk, runc, runc_calls>>
         /\ (/\ op[w] = "create" /\ pc'[w] # pc[w]
             /\ \E k \in 1..Len(CreateSteps) : CreateSteps[k] = pc[w]) =>
              LET k == StepOf(pc[w])
                  i == cid[w]
                  next == IF k < Len(CreateSteps) THEN CreateSteps[k + 1] ELSE "idle"
                  on == pc'[w] = next
              IN  /\ pc'[w] \in {next, "c_rb_map"}
                  /\ pc'[w] = "idle" => res'[w].ok /\ res'[w].id = i
                  /\ k = 1 => /\ UNCHANGED <<container_map, runc, runc_calls>>
                              /\ on => ~DirExists(disk, i) /\ disk' = StoreCreateDir(disk, i)
                              /\ ~on => disk' = disk
                  /\ k = 2 => /\ UNCHANGED <<container_map, runc, runc_calls>>
                              /\ on => disk'[i].bundle = "rootfs"
                  /\ k = 3 => /\ UNCHANGED <<container_map, runc>>
                              /\ runc_calls' = [runc_calls EXCEPT ![i]["Spec"] = @ + 1]
                              /\ on => spec_exit'[i] = "zero"
                  /\ k = 4 => /\ UNCHANGED <<container_map, disk>>
                              /\ runc_calls' = [runc_calls EXCEPT ![i]["Create"] = @ + 1]
                              /\ runc_calls[i]["Spec"] > 0
                  /\ k = 5 => /\ UNCHANGED <<disk, runc, runc_calls>>
                              /\ runc_calls[i]["Create"] > 0
                              /\ on => container_map' =
                                         MapUpdateCreationTime(container_map, i, clock')
                  /\ k = 6 => /\ UNCHANGED <<disk, runc, runc_calls>>
                              /\ on => /\ container_map' =
                                            MapUpdateStatus(container_map, i, "Created")
                                       /\ container_map[i].created_at # 0
                  /\ k > 6 => UNCHANGED <<container_map, runc, runc_calls>>]_vars

\* the error kinds each step of create_container_helper can fail with
StepErrors(k) ==
    CASE k = 1 -> {"ContainerDirAlreadyExistsError", "CreateSpecificContainerDirError"}
      [] k = 2 -> {"CreateRootfsDirError", "CopyRootfsDirError"}
      [] k = 3 -> {"RuncError", "SedError"}
      [] k = 4 -> {"RuncError"}
      [] k \in {5, 6} -> {"ContainerNotFoundError"}
      [] k = 7 -> {"ContainerMapError"}
      [] k \in {8, 9} -> {"PersistContainerStateError"}
      [] k = 10 -> {"RenameContainerStateFileError"}

\* C28: a step of create_container that fails hands rollback an error of
\* that step; rollback removes the record, then the entries of the directory,
\* then the directory, whether or not they exist, raises no error of its own
\* and keeps the one it was handed, which is what create_container returns; a
\* failed create returns from rollback only; and removing the record or the
\* directory once more changes nothing
C28_RollbackKeepsError ==
    [][\A w \in Workers :
         /\ (/\ op[w] = "create" /\ pc'[w] = "c_rb_map"
             /\ \E k \in 1..Len(CreateSteps) : CreateSteps[k] = pc[w])
            => err'[w].kind \in StepErrors(StepOf(pc[w]))
         /\ (pc[w] = "c_rb_map" /\ pc'[w] # pc[w])
            => /\ pc'[w] = "c_rb_dir"
               /\ err'[w] = err[w]
               /\ container_map' = MapRemove(container_map, cid[w])
               /\ MapRemove(container_map', cid[w]) = container_map'
               /\ disk' = disk
         /\ (pc[w] = "c_rb_dir" /\ pc'[w] # pc[w])
            => LET once == StoreRmdir(StoreRemoveEntries(disk, cid[w]), cid[w])
               IN  /\ pc'[w] = "c_rb_rmdir"
                   /\ err'[w] = err[w]
                   /\ disk' = StoreRemoveEntries(disk, cid[w])
                   /\ ~DirExists(once, cid[w])
                   /\ StoreRmdir(StoreRemoveEntries(once, cid[w]), cid[w]) = once
                   /\ container_map' = container_map
         /\ (pc[w] = "c_rb_rmdir" /\ pc'[w] # pc[w])
            => /\ pc'[w] = "idle"
               /\ ~res'[w].ok
               /\ res'[w].err = err[w]
               /\ disk' = StoreRmdir(disk, cid[w])
               /\ container_map' = container_map
         /\ (op[w] = "create" /\ pc'[w] = "idle" /\ ~res'[w].ok)
            => pc[w] = "c_rb_rmdir"]_vars

\* C28 witness: create_container returned the error of the directory
\* creation that failed, rollback having run with no directory to remove
C28_Witness ==
    \E w \in Workers :
        /\ res[w].op = "create" /\ ~res[w].ok
        /\ res[w].err = Err("CreateSpecificContainerDirError", res[w].id)
        /\ res[w].id \in create_failed
        /\ ~MapHas(container_map, res[w].id) /\ ~DirExists(disk, res[w].id)

\* ------------------------------------------------------ ContainerMap alone
\* the containers a caller can hand to ContainerMap::add
MapRecords ==
    {[new(i, n, "sh", <<"-c">>) EXCEPT !.status = s]
        : i \in Ids, n \in {"c1", "c2"}, s \in {"Initialized", "Created"}}

\* ContainerMap::new, and no call made yet
MapInit ==
    /\ phase = "serving"
    /\ reload_ids = {}
    /\ container_map = [j \in {} |-> NoContainer]
    /\ disk = [j \in {} |-> EmptyDir]
    /\ runc = [i \in Ids |-> "none"]
    /\ clock = 1
    /\ used = {}
    /\ ops = 0
    /\ pc = [w \in Workers |-> "idle"]
    /\ op = [w \in Workers |-> ""]
    /\ cid = [w \in Workers |-> 0]
    /\ buf = [w \in Workers |-> NoContainer]
    /\ todo = [w \in Workers |-> {}]
    /\ err = [w \in Workers |-> NoErr]
    /\ fd = [w \in Workers |-> "none"]
    /\ st = [w \in Workers |-> ""]
    /\ res = [w \in Workers |-> NoRes]
    /\ reload_log = [i \in Ids |-> NoLog]
    /\ create_failed = {}
    /\ spec_exit = [i \in Ids |-> "-"]
    /\ runc_calls = [i \in Ids |-> [m \in RuncMethod |-> 0]]
    /\ prev = [w \in Workers |-> NoFile]
    /\ overlap = [w \in Workers |-> FALSE]
    /\ shared = [w \in Workers |-> FALSE]
    /\ seq = FALSE

\* what a call on the map alone leaves as it was
MapFrame ==
    UNCHANGED <<phase, reload_ids, disk, runc, clock, pc, op, cid, buf, todo, err,
                fd, st, reload_log, create_failed, spec_exit, runc_calls, prev,
                overlap, shared, seq>>

\* one call of ContainerMap::add(container); used collects the ids ever added
MapAddCall(c) ==
    /\ ops < MaxMapCalls
    /\ ops' = ops + 1
    /\ container_map' = MapAdd(container_map, c)
    /\ res' = Reset(res, 1,
                IF MapHas(container_map, c.id)
                THEN [op |-> "add", id |-> c.id, ok |-> FALSE,
                      err |-> Err("ContainerAlreadyExistsError", c.id), val |-> {c}]
                ELSE [op |-> "add", id |-> c.id, ok |-> TRUE, err |-> NoErr, val |-> {c}])
    /\ used' = used \cup {c.id}
    /\ MapFrame

\* one call of ContainerMap::remove(container_id), which returns nothing
MapRemoveCall(i) ==
    /\ ops < MaxMapCalls
    /\ ops' = ops + 1
    /\ container_map' = MapRemove(container_map, i)
    /\ res' = Reset(res, 1, [op |-> "remove", id |-> i, ok |-> TRUE, err |-> NoErr, val |-> {}])
    /\ used' = used
    /\ MapFrame

\* what an update call on the map returns: Ok(()) when the id is present
MapUpdateRes(o, i, v) ==
    IF MapHas(container_map, i)
    THEN [op |-> o, id |-> i, ok |-> TRUE, err |-> NoErr, val |-> {v}]
    ELSE [op |-> o, id |-> i, ok |-> FALSE,
          err |-> Err("ContainerNotFoundError", i), val |-> {v}]

\* one call of ContainerMap::update_status(container_id, status)
MapUpdateStatusCall(i, status) ==
    /\ ops < MaxMapCalls
    /\ ops' = ops + 1
    /\ container_map' = IF MapHas(container_map, i)
                        THEN MapUpdateStatus(container_map, i, status)
                        ELSE container_map
    /\ res' = Reset(res, 1, MapUpdateRes("update_status", i, status))
    /\ used' = used
    /\ MapFrame

\* one call of ContainerMap::update_creation_time(container_id, created_at)
MapUpdateCreationTimeCall(i, t) ==
    /\ ops < MaxMapCalls
    /\ ops' = ops + 1
    /\ container_map' = IF MapHas(container_map, i)
                        THEN MapUpdateCreationTime(container_map, i, t)
                        ELSE container_map
    /\ res' = Reset(res, 1, MapUpdateRes("update_creation_time", i, t))
    /\ used' = used
    /\ MapFrame

\* one call of ContainerMap::update_start_time(container_id, started_at)
MapUpdateStartTimeCall(i, t) ==
    /\ ops < MaxMapCalls
    /\ ops' = ops + 1
    /\ container_map' = IF MapHas(container_map, i)
                        THEN MapUpdateStartTime(container_map, i, t)
                        ELSE container_map
    /\ res' = Reset(res, 1, MapUpdateRes("update_start_time", i, t))
    /\ used' = used
    /\ MapFrame

MapNext ==
    \/ \E c \in MapRecords : MapAddCall(c)
    \/ \E i \in Ids : MapRemoveCall(i)
    \/ \E i \in Ids, status \in Statuses : MapUpdateStatusCall(i, status)
    \/ \E i \in Ids, t \in Times \ {0} : MapUpdateCreationTimeCall(i, t)
    \/ \E i \in Ids, t \in Times \ {0} : MapUpdateStartTimeCall(i, t)

MapSpec == MapInit /\ [][MapNext]_vars

\* C29: an add of a record whose id is in the map returns
\* ContainerAlreadyExists for that id and leaves the map as it was; an add of
\* a record whose id is not in the map returns that id and adds the record
\* under it, the other entries staying as they were; every key of the map is
\* the id of the record stored under it
C29_AddRejectsPresent ==
    [][/\ (ops' = ops + 1 /\ res'[1].op = "add") =>
            \A c \in res'[1].val :
                IF c.id \in DOMAIN container_map
                THEN /\ res'[1].ok = FALSE
                     /\ res'[1].err = Err("ContainerAlreadyExistsError", c.id)
                     /\ container_map' = container_map
                ELSE /\ res'[1].ok /\ res'[1].id = c.id
                     /\ DOMAIN container_map' = DOMAIN container_map \cup {c.id}
                     /\ container_map'[c.id] = c
                     /\ \A j \in DOMAIN container_map : container_map'[j] = container_map[j]
       /\ \A j \in DOMAIN container_map' : container_map'[j].id = j]_vars

\* C29 witness: an add was refused for an id whose record in the map differs
\* from the one offered, and another id is in the map too
C29_Witness ==
    /\ res[1].op = "add" /\ ~res[1].ok
    /\ res[1].err.kind = "ContainerAlreadyExistsError"
    /\ \E c \in res[1].val : MapHas(container_map, c.id) /\ container_map[c.id] # c
    /\ \E j \in DOMAIN container_map : j # res[1].id

\* C30: a remove returns without error and leaves the map without the id and
\* with every other entry as it was; on an id that is not in the map it
\* changes nothing; and a second remove of the same id changes nothing
C30_RemoveIdempotent ==
    [][(ops' = ops + 1 /\ res'[1].op = "remove") =>
         LET i == res'[1].id
         IN  /\ res'[1].ok
             /\ DOMAIN container_map' = DOMAIN container_map \ {i}
             /\ \A j \in DOMAIN container_map' : container_map'[j] = container_map[j]
             /\ ~MapHas(container_map, i) => container_map' = container_map
             /\ MapRemove(container_map', i) = container_map']_vars

\* C30 witness: a remove was called for an id that was never added, while
\* the map held a record of another id, which it still holds
C30_Witness ==
    /\ res[1].op = "remove" /\ res[1].ok
    /\ res[1].id \notin used
    /\ \E j \in DOMAIN container_map : j # res[1].id

\* the field each update method of the map writes
UpdatedField(o) ==
    CASE o = "update_status"        -> "status"
      [] o = "update_creation_time" -> "created_at"
      [] o = "update_start_time"    -> "started_at"

\* C31: update_status, update_creation_time and update_start_time on an id
\* that is in the map return Ok and leave every entry as it was except the
\* one field of that id's record, which gets the value passed; on an id that
\* is not in the map they return ContainerNotFound for that id and leave the
\* map as it was
C31_UpdateOneField ==
    [][(/\ ops' = ops + 1
        /\ res'[1].op \in {"update_status", "update_creation_time", "update_start_time"})
       => LET i == res'[1].id
              f == UpdatedField(res'[1].op)
          IN  IF i \in DOMAIN container_map
              THEN /\ res'[1].ok
                   /\ DOMAIN container_map' = DOMAIN container_map
                   /\ \A j \in DOMAIN container_map \ {i} :
                          container_map'[j] = container_map[j]
                   /\ \A v \in res'[1].val : container_map'[i][f] = v
                   /\ \A g \in DOMAIN container_map[i] \ {f} :
                          container_map'[i][g] = container_map[i][g]
              ELSE /\ res'[1].ok = FALSE
                   /\ res'[1].err = Err("ContainerNotFoundError", i)
                   /\ container_map' = container_map]_vars

\* C31 witness: update_start_time has set the start time of one record, whose
\* creation time is still unset, while the map holds a record of another id
C31_Witness ==
    /\ res[1].op = "update_start_time" /\ res[1].ok
    /\ MapHas(container_map, res[1].id)
    /\ container_map[res[1].id].started_at # 0
    /\ container_map[res[1].id].created_at = 0
    /\ \E j \in DOMAIN container_map : j # res[1].id

\* C32 (as claimed): when the first call the manager serves is a
\* start_container or stop_container that got past its precondition and
\* returned an error, the record in the map still has the status the handler
\* required and the state file still holds that record, as before the call
C32_FailedCallChangesNothing ==
    \A w \in Workers :
        ( /\ ops = 1
          /\ pc[w] = "idle"
          /\ res[w].op \in {"start", "stop"}
          /\ ~res[w].ok
          /\ res[w].err.kind \notin {"ContainerNotFoundError", PreconditionError(res[w].op)} )
        => /\ MapHas(container_map, res[w].id)
           /\ Allowed(res[w].op, container_map[res[w].id].status)
           /\ StoreReadable(disk, res[w].id)
           /\ Deserialize(disk[res[w].id].state) = container_map[res[w].id]

\* ------------------------------------------------ colliding container ids
\* create_container when rand_id returns an id that the map or the containers
\* directory already holds: container::new and ContainerMap::add, which
\* rejects the id when the map holds it
CreateContainerCollides(w) ==
    /\ Accept(w)
    /\ \E i \in DOMAIN container_map \cup DOMAIN disk :
        IF MapHas(container_map, i)
        THEN /\ Begin(w, "create", i, "c_rb_map")
             /\ err' = Reset(err, w, Err("ContainerAlreadyExistsError", i))
             /\ UNCHANGED container_map
        ELSE /\ Begin(w, "create", i, "c_dir")
             /\ container_map' = MapAdd(container_map, new(i, "c1", "sh", <<"-c">>))
             /\ UNCHANGED err
    /\ UNCHANGED <<mgrVars, disk, runc, clock, used, buf, todo, fd, st, prev, overlap,
                   createHist, seq>>
    /\ UNCHANGED runc_calls

\* the manager when rand_id can repeat an id
CollideNext ==
    \/ Next
    \/ \E w \in Workers : CreateContainerCollides(w)

CollideSpec == Init /\ [][CollideNext]_vars

\* C33 (as claimed): a create_container call that failed because the map
\* already held the generated id leaves the map as it was, and one that failed
\* because the map or the containers directory already held the id leaves the
\* containers directory as it was, in every step up to its return
C33_RollbackSparesOthers ==
    [][\A w \in Workers :
         ( /\ op[w] = "create"
           /\ pc'[w] # pc[w]
           /\ err[w].kind \in {"ContainerAlreadyExistsError",
                               "ContainerDirAlreadyExistsError"} )
         => /\ err[w].kind = "ContainerAlreadyExistsError"
                => container_map' = container_map
            /\ disk' = disk]_vars

\* C34 (as claimed): the manager runs `runc start` at most once for a container
C34_StartInvokedOnce ==
    \A i \in Ids : runc_calls[i]["Start"] <= 1

\* C35 (as claimed): once delete_container has returned Ok for a container,
\* neither the map nor the containers directory holds an entry for its id
C35_DeletedStaysDeleted ==
    \A w \in Workers :
        (res[w].op = "delete" /\ res[w].ok)
        => /\ ~MapHas(container_map, res[w].id)
           /\ ~DirExists(disk, res[w].id)

\* C36 (as claimed): when two calls among start, stop, get and list have run
\* on the two workers and both returned Ok, so that no write or rename failed,
\* and no call is in progress, the state file of every container in the map
\* parses to the record the map holds
C36_RestingStateMatches ==
    ( /\ \A w \in Workers :
            /\ pc[w] = "idle"
            /\ res[w].ok
            /\ res[w].op \in {"start", "stop", "get", "list"}
      /\ ops = NumWorkers )
    => \A i \in DOMAIN container_map :
           /\ StoreReadable(disk, i)
           /\ Deserialize(disk[i].state) = container_map[i]

\* C37 (as claimed): a get_container that follows a create_container that
\* returned Ok, for the id it returned, does not return ContainerNotFoundError
C37_GetAfterCreateFinds ==
    ( /\ seq
      /\ ops = 2
      /\ pc[1] = "idle"
      /\ res[1].op = "get" )
    => res[1].err.kind # "ContainerNotFoundError"

====
